---- MODULE Spec2Model ----
(***************************************************************************)
(* State-machine model of the AI-services gateway (ai-services/main.py):   *)
(* the retraining submission handler and its background task, the realtime *)
(* WebSocket session loop, the receipt upload endpoints with their         *)
(* temporary files, and the batch categorization endpoint.                 *)
(*                                                                         *)
(* The handlers are asyncio coroutines: the code between two awaits runs   *)
(* atomically, so every action below is one such stretch of a handler.     *)
(***************************************************************************)
EXTENDS Integers, Sequences, FiniteSets, TLC

\* ------------------------------------------------------------------ bounds
NumJobs == 2          \* retraining submissions
NumReqs == 2          \* receipt upload requests
MaxMsgs == 3          \* messages a realtime client sends
MaxBatch == 3         \* expenses in one batch
NumForecasts == 2     \* budget forecast requests
MaxHorizonInput == 13 \* largest prediction_months a client sends
NumCalls == 2         \* requests to the single-item endpoints

Jobs == 1..NumJobs
Reqs == 1..NumReqs

VARIABLES
    \* retraining (retrain_models, retrain_models_background)
    submitted,      \* number of retrain submissions handled so far
    jobKeys,        \* jobKeys[j]: the keys of submission j's training_data
    jobResp,        \* jobResp[j]: what the submitter of j received
    taskpc,         \* taskpc[j]: where j's background task is
    capState,       \* capState[j][c]: j's retrain of capability c
    retrainCalls,   \* every <service>.retrain(...) invocation made
    errorLog,       \* errorLog[j]: "Background retraining error" was logged
    \* realtime session (websocket_real_time_analysis)
    wspc,           \* where the session's handler is
    wsReceived,     \* the messages receive_json has returned, in order
    wsSent,         \* the messages send_json has sent, in order
    wsCategory,     \* local `category`
    wsFraud,        \* local `fraud_alert`
    wsTransportError, \* receive_json or send_json has raised
    wsClosed,       \* websocket.close() has been called
    \* receipt uploads (validate_receipt, enhanced_ocr_processing)
    reqpc,          \* reqpc[r]: where request r's handler is
    reqKind,        \* reqKind[r]: the endpoint r was sent to
    reqFile,        \* reqFile[r]: file.filename of r's upload
    reqResp,        \* reqResp[r]: the response r's caller got
    fs,             \* fs[p]: the file at path p of /tmp, or its absence
    acquired,       \* acquired[r]: r's open(file_path, "wb") succeeded
    releases,       \* releases[r]: number of os.remove calls of r that removed a file
    capCall,        \* capCall[r]: r's validate_receipt / process_receipt call
    \* batch categorization (batch_categorize_expenses)
    batchpc,        \* where the batch handler is
    batchInput,     \* the `expenses` of the request
    itemStatus,     \* itemStatus[i]: how item i's prediction has resolved
    batchResp,      \* the response of the batch request
    \* budget forecast (predict_budget)
    fcpc,           \* fcpc[q]: where forecast request q is
    fcMonths,       \* fcMonths[q]: prediction_months of request q
    fcResp,         \* fcResp[q]: the response q's caller got
    fcCalls,        \* the horizons predict_budget of the service was called with
    \* single-item endpoints (categorize_expense, detect_fraud, ...)
    sipc,           \* sipc[q]: where call q's handler is
    siEndpoint,     \* siEndpoint[q]: the endpoint q was sent to
    siInput,        \* siInput[q]: the expense (or upload) q carries
    siError,        \* siError[q]: str(e) of the exception q's handler caught
    siLog,          \* siLog[q]: what q's handler wrote with logger.error
    siResp          \* siResp[q]: the response q's caller got

retrainVars == <<submitted, jobKeys, jobResp, taskpc, capState, retrainCalls, errorLog>>
sessionVars == <<wspc, wsReceived, wsSent, wsCategory, wsFraud, wsTransportError, wsClosed>>
artifactVars == <<reqpc, reqKind, reqFile, reqResp, fs, acquired, releases, capCall>>
batchVars == <<batchpc, batchInput, itemStatus, batchResp>>
forecastVars == <<fcpc, fcMonths, fcResp, fcCalls>>
singleVars == <<sipc, siEndpoint, siInput, siError, siLog, siResp>>
vars == <<retrainVars, sessionVars, artifactVars, batchVars, forecastVars, singleVars>>
notRetrain == <<sessionVars, artifactVars, batchVars, forecastVars, singleVars>>
notSession == <<retrainVars, artifactVars, batchVars, forecastVars, singleVars>>
notArtifact == <<retrainVars, sessionVars, batchVars, forecastVars, singleVars>>
notBatch == <<retrainVars, sessionVars, artifactVars, forecastVars, singleVars>>
notForecast == <<retrainVars, sessionVars, artifactVars, batchVars, singleVars>>
notSingle == <<retrainVars, sessionVars, artifactVars, batchVars, forecastVars>>

\* ================================================================ retraining

\* Mutant: fraud detection is retrained before categorization.
RetrainOrderSwapped == <<"fraud_detection", "categorization", "predictions">>

\* The capabilities retrain_models_background knows, in the order it visits them.
RetrainOrder == <<"categorization", "fraud_detection", "predictions">>
KnownCapabilities == {RetrainOrder[i] : i \in 1..Len(RetrainOrder)}
\* Keys a client may put in training_data.
PayloadKeys == KnownCapabilities \cup {"unknown_capability"}

\* training_data[k] of submission j: the list of examples stored under key k.
TrainingData(j, k) == <<j, k>>

\* The capabilities of a payload that the background task will retrain.
Targeted(keys) == keys \cap KnownCapabilities

\* Mutant: the membership test `if "<capability>" in training_data` is dropped.
NextTargetUnchecked(keys, from) ==
    IF from > Len(RetrainOrder) THEN 0 ELSE from

\* Index in RetrainOrder of the first capability at position >= from whose key
\* is in the payload (the chain of `if ... in training_data`), 0 when none.
NextTarget(keys, from) ==
    LET later == {i \in from..Len(RetrainOrder) : RetrainOrder[i] \in keys}
    IN  IF later = {} THEN 0
        ELSE CHOOSE i \in later : \A k \in later : i <= k

\* The argument of `<service of c>.retrain(training_data[c])`.
RetrainArgs(j, c) == TrainingData(j, c)

RetrainInit ==
    /\ submitted = 0
    /\ jobKeys = [j \in Jobs |-> {}]
    /\ jobResp = [j \in Jobs |-> "none"]
    /\ taskpc = [j \in Jobs |-> "none"]
    /\ capState = [j \in Jobs |-> [c \in KnownCapabilities |-> "not_run"]]
    /\ retrainCalls = {}
    /\ errorLog = [j \in Jobs |-> FALSE]

\* The task of j runs on from position `from` of the chain up to its next
\* await: it invokes the next targeted capability's retrain, or finishes.
RunTaskFrom(j, from, caps) ==
    LET n == NextTarget(jobKeys[j], from)
    IN  IF n = 0
        THEN /\ taskpc' = [taskpc EXCEPT ![j] = "done"]
             /\ capState' = caps
             /\ UNCHANGED retrainCalls
        ELSE /\ taskpc' = [taskpc EXCEPT ![j] = RetrainOrder[n]]
             /\ capState' = [caps EXCEPT ![j][RetrainOrder[n]] = "running"]
             /\ retrainCalls' = retrainCalls \cup
                    {[job |-> j, cap |-> RetrainOrder[n],
                      examples |-> RetrainArgs(j, RetrainOrder[n])]}

PositionOf(c) == CHOOSE i \in 1..Len(RetrainOrder) : RetrainOrder[i] = c

\* Mutant: the handler awaits the retraining before it answers.
RetrainModelsAwaited(keys) ==
    /\ submitted < NumJobs
    /\ submitted' = submitted + 1
    /\ jobKeys' = [jobKeys EXCEPT ![submitted + 1] = keys]
    /\ taskpc' = [taskpc EXCEPT ![submitted + 1] = "done"]
    /\ capState' = [capState EXCEPT ![submitted + 1] =
            [c \in KnownCapabilities |->
                IF c \in keys THEN "succeeded" ELSE "not_run"]]
    /\ retrainCalls' = retrainCalls \cup
            {[job |-> submitted + 1, cap |-> c,
              examples |-> RetrainArgs(submitted + 1, c)] : c \in Targeted(keys)}
    /\ jobResp' = [jobResp EXCEPT ![submitted + 1] = "retraining_started"]
    /\ UNCHANGED <<notRetrain, errorLog>>

\* POST /api/v1/retrain-models: create the background task, answer at once.
RetrainModels(keys) ==
    /\ submitted < NumJobs
    /\ submitted' = submitted + 1
    /\ jobKeys' = [jobKeys EXCEPT ![submitted + 1] = keys]
    /\ taskpc' = [taskpc EXCEPT ![submitted + 1] = "spawned"]
    /\ jobResp' = [jobResp EXCEPT ![submitted + 1] = "retraining_started"]
    /\ UNCHANGED <<notRetrain, capState, retrainCalls, errorLog>>

\* The event loop starts a created task: tasks start in creation order.
TaskStarts(j) ==
    /\ taskpc[j] = "spawned"
    /\ \A i \in Jobs : i < j => taskpc[i] # "spawned"
    /\ RunTaskFrom(j, 1, capState)
    /\ UNCHANGED <<notRetrain, submitted, jobKeys, jobResp, errorLog>>

\* The awaited retrain returns: the task goes on to the next capability.
RetrainReturns(j) ==
    /\ taskpc[j] \in KnownCapabilities
    /\ RunTaskFrom(j, PositionOf(taskpc[j]) + 1,
                   [capState EXCEPT ![j][taskpc[j]] = "succeeded"])
    /\ UNCHANGED <<notRetrain, submitted, jobKeys, jobResp, errorLog>>

\* Mutant: the exception is not caught; it ends the task unlogged.
RetrainRaisesUncaught(j) ==
    /\ taskpc[j] \in KnownCapabilities
    /\ capState' = [capState EXCEPT ![j][taskpc[j]] = "failed"]
    /\ taskpc' = [taskpc EXCEPT ![j] = "raised"]
    /\ UNCHANGED <<notRetrain, submitted, jobKeys, jobResp, retrainCalls, errorLog>>

\* The awaited retrain raises: the except clause logs it and the task ends.
RetrainRaises(j) ==
    /\ taskpc[j] \in KnownCapabilities
    /\ capState' = [capState EXCEPT ![j][taskpc[j]] = "failed"]
    /\ taskpc' = [taskpc EXCEPT ![j] = "done"]
    /\ errorLog' = [errorLog EXCEPT ![j] = TRUE]
    /\ UNCHANGED <<notRetrain, submitted, jobKeys, jobResp, retrainCalls>>

RetrainNext ==
    \/ \E keys \in SUBSET PayloadKeys : RetrainModels(keys)
    \/ \E j \in Jobs : TaskStarts(j)
    \/ \E j \in Jobs : RetrainReturns(j)
    \/ \E j \in Jobs : RetrainRaises(j)

\* ========================================================== realtime session

\* The expenses a client may send.
Expenses == {"e1", "e2"}

\* What the services compute for an expense.
CategoryOf(e) == [kind |-> "CategoryPrediction", expense |-> e]
FraudAlertOf(e) == [kind |-> "FraudAlert", expense |-> e]

\* The request the handler is working on: the last message received.
CurrentRequest == wsReceived[Len(wsReceived)]

SessionInit ==
    /\ wspc = "connecting"
    /\ wsReceived = <<>>
    /\ wsSent = <<>>
    /\ wsCategory = [kind |-> "none", expense |-> "none"]
    /\ wsFraud = [kind |-> "none", expense |-> "none"]
    /\ wsTransportError = FALSE
    /\ wsClosed = FALSE

\* except Exception: logger.error(...); await websocket.close()
WsCloseOnError ==
    /\ wspc' = "closed"
    /\ wsClosed' = TRUE

\* await websocket.accept()
WsAccept ==
    /\ wspc = "connecting"
    /\ wspc' = "receiving"
    /\ UNCHANGED <<notSession, wsReceived, wsSent, wsCategory, wsFraud, wsTransportError, wsClosed>>

\* receive_json returns data that forms an ExpenseData: predict_category is awaited.
WsReceiveValid(e) ==
    /\ wspc = "receiving"
    /\ Len(wsReceived) < MaxMsgs
    /\ wsReceived' = Append(wsReceived, [kind |-> "valid", expense |-> e])
    /\ wspc' = "categorizing"
    /\ UNCHANGED <<notSession, wsSent, wsCategory, wsFraud, wsTransportError, wsClosed>>

\* receive_json returns data for which ExpenseData(**data) raises.
WsReceiveMalformed ==
    /\ wspc = "receiving"
    /\ Len(wsReceived) < MaxMsgs
    /\ wsReceived' = Append(wsReceived, [kind |-> "malformed", expense |-> "none"])
    /\ WsCloseOnError
    /\ UNCHANGED <<notSession, wsSent, wsCategory, wsFraud, wsTransportError>>

\* receive_json itself raises (disconnect, text that is no JSON).
WsReceiveRaises ==
    /\ wspc = "receiving"
    /\ wsTransportError' = TRUE
    /\ WsCloseOnError
    /\ UNCHANGED <<notSession, wsReceived, wsSent, wsCategory, wsFraud>>

\* category = await categorization_service.predict_category(expense_data)
WsCategoryReturns ==
    /\ wspc = "categorizing"
    /\ wsCategory' = CategoryOf(CurrentRequest.expense)
    /\ wspc' = "analyzing"
    /\ UNCHANGED <<notSession, wsReceived, wsSent, wsFraud, wsTransportError, wsClosed>>

WsCategoryRaises ==
    /\ wspc = "categorizing"
    /\ WsCloseOnError
    /\ UNCHANGED <<notSession, wsReceived, wsSent, wsCategory, wsFraud, wsTransportError>>

\* Mutant: the response is not awaited; the loop goes back to receive_json.
WsFraudReturnsPipelined ==
    /\ wspc = "analyzing"
    /\ wsFraud' = FraudAlertOf(CurrentRequest.expense)
    /\ wspc' = "receiving"
    /\ UNCHANGED <<notSession, wsReceived, wsSent, wsCategory, wsTransportError, wsClosed>>

\* fraud_alert = await ...analyze_expense(expense_data); send_json is awaited.
WsFraudReturns ==
    /\ wspc = "analyzing"
    /\ wsFraud' = FraudAlertOf(CurrentRequest.expense)
    /\ wspc' = "sending"
    /\ UNCHANGED <<notSession, wsReceived, wsSent, wsCategory, wsTransportError, wsClosed>>

WsFraudRaises ==
    /\ wspc = "analyzing"
    /\ WsCloseOnError
    /\ UNCHANGED <<notSession, wsReceived, wsSent, wsCategory, wsFraud, wsTransportError>>

\* send_json completes: the loop goes back to receive_json.
WsSendCompletes ==
    /\ wspc = "sending"
    /\ wsSent' = Append(wsSent, [category |-> wsCategory, fraud_alert |-> wsFraud])
    /\ wspc' = "receiving"
    /\ UNCHANGED <<notSession, wsReceived, wsCategory, wsFraud, wsTransportError, wsClosed>>

WsSendRaises ==
    /\ wspc = "sending"
    /\ wsTransportError' = TRUE
    /\ WsCloseOnError
    /\ UNCHANGED <<notSession, wsReceived, wsSent, wsCategory, wsFraud>>

SessionNext ==
    \/ WsAccept
    \/ \E e \in Expenses : WsReceiveValid(e)
    \/ WsReceiveMalformed
    \/ WsReceiveRaises
    \/ WsCategoryReturns
    \/ WsCategoryRaises
    \/ WsFraudReturns
    \/ WsFraudRaises
    \/ WsSendCompletes
    \/ WsSendRaises

\* =========================================================== receipt uploads

\* The endpoints that store the upload in a temporary file.
UploadEndpoints == {"validate_receipt", "enhanced_ocr_processing"}
\* The file names clients give their uploads.
FileNames == {"receipt.png", "scan.png"}

\* file_path = f"/tmp/{file.filename}"
FilePath(filename) == "/tmp/" \o filename
Paths == {FilePath(f) : f \in FileNames}

Absent == [owner |-> 0, written |-> FALSE]
\* The request's file_path.
PathOf(r) == FilePath(reqFile[r])
\* r has stored its upload and its handler has not ended.
InFlight(r) == acquired[r] /\ reqpc[r] \in {"reading", "awaiting_capability"}

ArtifactInit ==
    /\ reqpc = [r \in Reqs |-> "idle"]
    /\ reqKind = [r \in Reqs |-> "none"]
    /\ reqFile = [r \in Reqs |-> "none"]
    /\ reqResp = [r \in Reqs |-> "none"]
    /\ fs = [p \in Paths |-> Absent]
    /\ acquired = [r \in Reqs |-> FALSE]
    /\ releases = [r \in Reqs |-> 0]
    /\ capCall = [r \in Reqs |-> "not_called"]

\* except Exception: logger.error(...); raise HTTPException(status_code=500, ...)
UploadFails(r) ==
    /\ reqpc' = [reqpc EXCEPT ![r] = "done"]
    /\ reqResp' = [reqResp EXCEPT ![r] = "http_500"]

\* The request arrives; open(file_path, "wb") creates or truncates the file,
\* then `await file.read()` suspends the handler.
UploadOpens(r, kind, f) ==
    /\ reqpc[r] = "idle"
    /\ reqKind' = [reqKind EXCEPT ![r] = kind]
    /\ reqFile' = [reqFile EXCEPT ![r] = f]
    /\ fs' = [fs EXCEPT ![FilePath(f)] = [owner |-> r, written |-> FALSE]]
    /\ acquired' = [acquired EXCEPT ![r] = TRUE]
    /\ reqpc' = [reqpc EXCEPT ![r] = "reading"]
    /\ UNCHANGED <<notArtifact, reqResp, releases, capCall>>

\* Mutant: the failure of open is swallowed and the service is called anyway.
UploadOpenRaisesIgnored(r, kind, f) ==
    /\ reqpc[r] = "idle"
    /\ reqKind' = [reqKind EXCEPT ![r] = kind]
    /\ reqFile' = [reqFile EXCEPT ![r] = f]
    /\ capCall' = [capCall EXCEPT ![r] = "called"]
    /\ reqpc' = [reqpc EXCEPT ![r] = "awaiting_capability"]
    /\ UNCHANGED <<notArtifact, reqResp, fs, acquired, releases>>

\* The request arrives and open(file_path, "wb") raises.
UploadOpenRaises(r, kind, f) ==
    /\ reqpc[r] = "idle"
    /\ reqKind' = [reqKind EXCEPT ![r] = kind]
    /\ reqFile' = [reqFile EXCEPT ![r] = f]
    /\ UploadFails(r)
    /\ UNCHANGED <<notArtifact, fs, acquired, releases, capCall>>

\* file.read() returns, buffer.write(content) and the with block store the
\* content (into the file still linked at the path, if any); the service call
\* validate_receipt(file_path) / process_receipt(file_path, ...) is awaited.
ContentWritten(r) ==
    /\ reqpc[r] = "reading"
    /\ fs' = IF fs[PathOf(r)] = Absent THEN fs
             ELSE [fs EXCEPT ![PathOf(r)] = [owner |-> r, written |-> TRUE]]
    /\ capCall' = [capCall EXCEPT ![r] = "called"]
    /\ reqpc' = [reqpc EXCEPT ![r] = "awaiting_capability"]
    /\ UNCHANGED <<notArtifact, reqKind, reqFile, reqResp, acquired, releases>>

\* file.read() or buffer.write(content) raises.
ContentWriteRaises(r) ==
    /\ reqpc[r] = "reading"
    /\ UploadFails(r)
    /\ UNCHANGED <<notArtifact, reqKind, reqFile, fs, acquired, releases, capCall>>

\* The service call returns and os.remove(file_path) removes the file.
CapabilityReturns(r) ==
    /\ reqpc[r] = "awaiting_capability"
    /\ fs[PathOf(r)] # Absent
    /\ capCall' = [capCall EXCEPT ![r] = "returned"]
    /\ fs' = [fs EXCEPT ![PathOf(r)] = Absent]
    /\ releases' = [releases EXCEPT ![r] = @ + 1]
    /\ reqpc' = [reqpc EXCEPT ![r] = "done"]
    /\ reqResp' = [reqResp EXCEPT ![r] = "result"]
    /\ UNCHANGED <<notArtifact, reqKind, reqFile, acquired>>

\* The service call returns and os.remove(file_path) raises: the file is gone
\* already (FileNotFoundError) or the system refuses (OSError).
CapabilityReturnsRemoveRaises(r) ==
    /\ reqpc[r] = "awaiting_capability"
    /\ capCall' = [capCall EXCEPT ![r] = "returned"]
    /\ UploadFails(r)
    /\ UNCHANGED <<notArtifact, reqKind, reqFile, fs, acquired, releases>>

\* The service call raises: os.remove is skipped.
CapabilityRaises(r) ==
    /\ reqpc[r] = "awaiting_capability"
    /\ capCall' = [capCall EXCEPT ![r] = "raised"]
    /\ UploadFails(r)
    /\ UNCHANGED <<notArtifact, reqKind, reqFile, fs, acquired, releases>>

ArtifactNext ==
    \/ \E r \in Reqs, kind \in UploadEndpoints, f \in FileNames : UploadOpens(r, kind, f)
    \/ \E r \in Reqs, kind \in UploadEndpoints, f \in FileNames : UploadOpenRaises(r, kind, f)
    \/ \E r \in Reqs : ContentWritten(r)
    \/ \E r \in Reqs : ContentWriteRaises(r)
    \/ \E r \in Reqs : CapabilityReturns(r)
    \/ \E r \in Reqs : CapabilityReturnsRemoveRaises(r)
    \/ \E r \in Reqs : CapabilityRaises(r)

\* ======================================================= batch categorization

\* Sequences of expenses of length 0..MaxBatch.
Batches == UNION {[1..n -> Expenses] : n \in 0..MaxBatch}
\* How one item's prediction resolves inside batch_predict.
ItemOutcomes == {"succeeded", "CapabilityFailure"}

\* categorization_service.batch_predict(expenses): one entry per expense, in
\* input order, an item's failure kept as that entry's status.
BatchPredict(expenses, statuses) ==
    [raised |-> FALSE,
     value |-> [i \in 1..Len(expenses) |->
                    [expense |-> expenses[i], status |-> statuses[i]]]]

\* Mutant: the handler gives up on the batch when an item has failed.
BatchResponseAbortOnFailure(outcome) ==
    IF outcome.raised \/ \E i \in 1..Len(outcome.value) :
                            outcome.value[i].status # "succeeded"
    THEN [status |-> 500, body |-> <<>>]
    ELSE [status |-> 200, body |-> outcome.value]

\* try: results = await ...batch_predict(expenses); return results
\* except Exception: raise HTTPException(status_code=500, ...)
BatchResponse(outcome) ==
    IF outcome.raised
    THEN [status |-> 500, body |-> <<>>]
    ELSE [status |-> 200, body |-> outcome.value]

BatchInit ==
    /\ batchpc = "idle"
    /\ batchInput = <<>>
    /\ itemStatus = <<>>
    /\ batchResp = [status |-> 0, body |-> <<>>]

\* POST /api/v1/batch-categorize: batch_predict(expenses) is awaited.
BatchCategorize(expenses) ==
    /\ batchpc = "idle"
    /\ batchInput' = expenses
    /\ itemStatus' = [i \in 1..Len(expenses) |-> "pending"]
    /\ batchpc' = "awaiting"
    /\ UNCHANGED <<notBatch, batchResp>>

\* Inside batch_predict one item's prediction resolves, in any order.
ItemResolves(i, outcome) ==
    /\ batchpc = "awaiting"
    /\ i \in 1..Len(itemStatus)
    /\ itemStatus[i] = "pending"
    /\ itemStatus' = [itemStatus EXCEPT ![i] = outcome]
    /\ UNCHANGED <<notBatch, batchpc, batchInput, batchResp>>

\* Mutant: no timer is armed for a pending item.
ItemNeverTimesOut(i) ==
    /\ batchpc = "awaiting"
    /\ FALSE
    /\ UNCHANGED vars

\* Inside batch_predict the per-call timeout of an item that has not resolved
\* elapses: the item is reported as CapabilityTimeout.
ItemTimesOut(i) ==
    /\ batchpc = "awaiting"
    /\ i \in 1..Len(itemStatus)
    /\ itemStatus[i] = "pending"
    /\ itemStatus' = [itemStatus EXCEPT ![i] = "CapabilityTimeout"]
    /\ UNCHANGED <<notBatch, batchpc, batchInput, batchResp>>

\* Every item has resolved: batch_predict completes and the handler answers.
BatchPredictCompletes ==
    /\ batchpc = "awaiting"
    /\ \A i \in 1..Len(itemStatus) : itemStatus[i] # "pending"
    /\ batchResp' = BatchResponse(BatchPredict(batchInput, itemStatus))
    /\ batchpc' = "done"
    /\ UNCHANGED <<notBatch, batchInput, itemStatus>>

BatchNext ==
    \/ \E expenses \in Batches : BatchCategorize(expenses)
    \/ \E i \in 1..MaxBatch, outcome \in ItemOutcomes : ItemResolves(i, outcome)
    \/ \E i \in 1..MaxBatch : ItemTimesOut(i)
    \/ BatchPredictCompletes

\* ============================================================ budget forecast

Forecasts == 1..NumForecasts
\* The values of prediction_months clients send.
HorizonInputs == 0..MaxHorizonInput

\* prediction_months: int = Field(default=3, ge=1, le=12)
MinMonths == 1
MaxMonths == 12
DefaultMonths == 3

\* Mutant: the declaration lacks its upper limit (le=12).
MonthsAcceptedNoUpperLimit(m) == m >= MinMonths

\* The declared constraint of prediction_months, which the framework checks
\* before it calls the handler.
MonthsAccepted(m) == m >= MinMonths /\ m <= MaxMonths

ForecastInit ==
    /\ fcpc = [q \in Forecasts |-> "idle"]
    /\ fcMonths = [q \in Forecasts |-> 0]
    /\ fcResp = [q \in Forecasts |-> "none"]
    /\ fcCalls = {}

\* The handler body up to its await: predict_budget(historical_data, months).
ForecastHandlerStarts(q, m) ==
    /\ fcMonths' = [fcMonths EXCEPT ![q] = m]
    /\ fcCalls' = fcCalls \cup {[request |-> q, months |-> m]}
    /\ fcpc' = [fcpc EXCEPT ![q] = "awaiting"]
    /\ UNCHANGED fcResp

\* POST /api/v1/predict-budget with prediction_months = m.
PredictBudget(q, m) ==
    /\ fcpc[q] = "idle"
    /\ IF MonthsAccepted(m)
       THEN ForecastHandlerStarts(q, m)
       ELSE /\ fcMonths' = [fcMonths EXCEPT ![q] = m]
            /\ fcpc' = [fcpc EXCEPT ![q] = "done"]
            /\ fcResp' = [fcResp EXCEPT ![q] = "InvalidRequest"]
            /\ UNCHANGED fcCalls
    /\ UNCHANGED notForecast

\* POST /api/v1/predict-budget without prediction_months: the default is used.
PredictBudgetDefault(q) ==
    /\ fcpc[q] = "idle"
    /\ ForecastHandlerStarts(q, DefaultMonths)
    /\ UNCHANGED notForecast

\* The service's predict_budget returns: return result.
ForecastReturns(q) ==
    /\ fcpc[q] = "awaiting"
    /\ fcpc' = [fcpc EXCEPT ![q] = "done"]
    /\ fcResp' = [fcResp EXCEPT ![q] = "PredictionResult"]
    /\ UNCHANGED <<notForecast, fcMonths, fcCalls>>

\* The service's predict_budget raises: except Exception answers 500.
ForecastRaises(q) ==
    /\ fcpc[q] = "awaiting"
    /\ fcpc' = [fcpc EXCEPT ![q] = "done"]
    /\ fcResp' = [fcResp EXCEPT ![q] = "http_500"]
    /\ UNCHANGED <<notForecast, fcMonths, fcCalls>>

ForecastNext ==
    \/ \E q \in Forecasts, m \in HorizonInputs : PredictBudget(q, m)
    \/ \E q \in Forecasts : PredictBudgetDefault(q)
    \/ \E q \in Forecasts : ForecastReturns(q)
    \/ \E q \in Forecasts : ForecastRaises(q)

\* ====================================================== single-item endpoints

Calls == 1..NumCalls
\* The endpoints that make one service call inside try / except Exception.
SingleEndpoints ==
    {"categorize_expense", "detect_fraud", "assess_risk_score",
     "validate_receipt", "enhanced_ocr_processing", "auto_tag_expense"}
\* str(e) of the exceptions a service may raise.
Diagnostics == {"db timeout at 10.0.0.5", "KeyError: vendor"}

\* The prefix of the handler's logger.error line.
LogPrefix(ep) ==
    CASE ep = "categorize_expense" -> "Categorization error: "
      [] ep = "detect_fraud" -> "Fraud detection error: "
      [] ep = "assess_risk_score" -> "Risk assessment error: "
      [] ep = "validate_receipt" -> "Receipt validation error: "
      [] ep = "enhanced_ocr_processing" -> "Enhanced OCR error: "
      [] ep = "auto_tag_expense" -> "Auto-tagging error: "

\* The detail of the handler's HTTPException.
FailureDetail(ep) ==
    CASE ep = "categorize_expense" -> "Failed to categorize expense"
      [] ep = "detect_fraud" -> "Failed to analyze expense for fraud"
      [] ep = "assess_risk_score" -> "Failed to assess risk score"
      [] ep = "validate_receipt" -> "Failed to validate receipt"
      [] ep = "enhanced_ocr_processing" -> "Failed to process OCR"
      [] ep = "auto_tag_expense" -> "Failed to generate tags"

NoBody == [endpoint |-> "none", input |-> "none"]

\* Mutant: the exception's text is put into the response.
FailureResponseLeaking(ep, diagnostic) ==
    [status |-> 500, detail |-> FailureDetail(ep) \o ": " \o diagnostic, body |-> NoBody]

\* raise HTTPException(status_code=500, detail="Failed to ...")
FailureResponse(ep, diagnostic) ==
    [status |-> 500, detail |-> FailureDetail(ep), body |-> NoBody]

\* logger.error(f"... error: {str(e)}")
FailureLogLine(ep, diagnostic) == LogPrefix(ep) \o diagnostic

SingleInit ==
    /\ sipc = [q \in Calls |-> "idle"]
    /\ siEndpoint = [q \in Calls |-> "none"]
    /\ siInput = [q \in Calls |-> "none"]
    /\ siError = [q \in Calls |-> "none"]
    /\ siLog = [q \in Calls |-> "none"]
    /\ siResp = [q \in Calls |-> [status |-> 0, detail |-> "", body |-> NoBody]]

\* The request arrives and the handler awaits its service.
SingleItemCall(q, ep, x) ==
    /\ sipc[q] = "idle"
    /\ siEndpoint' = [siEndpoint EXCEPT ![q] = ep]
    /\ siInput' = [siInput EXCEPT ![q] = x]
    /\ sipc' = [sipc EXCEPT ![q] = "awaiting"]
    /\ UNCHANGED <<notSingle, siError, siLog, siResp>>

\* The service returns: return result.
SingleItemReturns(q) ==
    /\ sipc[q] = "awaiting"
    /\ siResp' = [siResp EXCEPT ![q] =
            [status |-> 200, detail |-> "",
             body |-> [endpoint |-> siEndpoint[q], input |-> siInput[q]]]]
    /\ sipc' = [sipc EXCEPT ![q] = "done"]
    /\ UNCHANGED <<notSingle, siEndpoint, siInput, siError, siLog>>

\* The service raises e: the handler logs str(e) and raises HTTPException.
SingleItemRaises(q, diagnostic) ==
    /\ sipc[q] = "awaiting"
    /\ siError' = [siError EXCEPT ![q] = diagnostic]
    /\ siLog' = [siLog EXCEPT ![q] = FailureLogLine(siEndpoint[q], diagnostic)]
    /\ siResp' = [siResp EXCEPT ![q] = FailureResponse(siEndpoint[q], diagnostic)]
    /\ sipc' = [sipc EXCEPT ![q] = "done"]
    /\ UNCHANGED <<notSingle, siEndpoint, siInput>>

SingleNext ==
    \/ \E q \in Calls, ep \in SingleEndpoints, x \in Expenses : SingleItemCall(q, ep, x)
    \/ \E q \in Calls : SingleItemReturns(q)
    \/ \E q \in Calls, d \in Diagnostics : SingleItemRaises(q, d)

\* ============================================================ specifications

Init ==
    /\ RetrainInit /\ SessionInit /\ ArtifactInit /\ BatchInit /\ ForecastInit
    /\ SingleInit
SpecSingle == Init /\ [][SingleNext]_vars
SpecForecast == Init /\ [][ForecastNext]_vars

SpecRetrain == Init /\ [][RetrainNext]_vars
SpecSession == Init /\ [][SessionNext]_vars
SpecArtifact == Init /\ [][ArtifactNext]_vars
SpecBatch == Init /\ [][BatchNext]_vars
\* A provider need never answer; a timer that was set does elapse, and the
\* event loop resumes a handler whose awaited call has completed.
SpecBatchLive ==
    /\ SpecBatch
    /\ \A i \in 1..MaxBatch : WF_vars(ItemTimesOut(i))
    /\ WF_vars(BatchPredictCompletes)

\* ==================================================================== claims

\* C1: every upload that was written to storage is deleted exactly once before
\* its request ends, on every exit path (the service call raising included),
\* and no artifact of a finished request persists. Requests whose os.remove
\* itself raised are left out: there the deletion was attempted.
RemoveRaised(r) == capCall[r] = "returned" /\ reqResp[r] = "http_500"
C1_ReleasedOnEveryExit ==
    \A r \in Reqs :
        (reqpc[r] = "done" /\ capCall[r] # "not_called" /\ ~RemoveRaised(r)) =>
            /\ acquired[r]
            /\ releases[r] = 1
            /\ fs[PathOf(r)].owner # r

\* C2: two uploads in flight at the same time never share a storage path,
\* also when both callers give the same file name.
C2_DistinctPathsInFlight ==
    \A r1, r2 \in Reqs :
        (r1 # r2 /\ InFlight(r1) /\ InFlight(r2)) => PathOf(r1) # PathOf(r2)

C4_OneExchangeInFlight ==
    /\ Len(wsSent) <= Len(wsReceived)
    /\ Len(wsReceived) - Len(wsSent) <= 1
    /\ (wspc = "receiving" => Len(wsSent) = Len(wsReceived))

C4_Witness ==
    /\ Len(wsReceived) = 2
    /\ Len(wsSent) = 1
    /\ wspc \in {"categorizing", "analyzing", "sending"}

\* C5: after a malformed message, with no transport error, the session has
\* sent a structured error and is not closed.
C5_MalformedKeepsSessionOpen ==
    (/\ Len(wsReceived) > 0
     /\ wsReceived[Len(wsReceived)].kind = "malformed"
     /\ ~wsTransportError) =>
        /\ ~wsClosed
        /\ wspc # "closed"
        /\ Len(wsSent) = Len(wsReceived)

\* C6: when the retraining of one targeted capability fails, every sibling
\* capability of the same submission is still retrained and gets its own outcome.
C6_SiblingRetrainedDespiteFailure ==
    \A j \in Jobs :
        taskpc[j] = "done" =>
            \A a, b \in Targeted(jobKeys[j]) :
                (a # b /\ capState[j][a] = "failed") =>
                    capState[j][b] \in {"succeeded", "failed"}

\* C7: the retrain of one capability is never running for two submissions at
\* the same time.
C7_NoConcurrentRetrainOfCapability ==
    \A j1, j2 \in Jobs : \A c \in KnownCapabilities :
        j1 # j2 => ~(capState[j1][c] = "running" /\ capState[j2][c] = "running")

\* C8: the step in which the submitter gets the accepted response leaves the
\* spawned retraining work not yet started: no retrain was awaited for it.
C8_ResponseBeforeRetraining ==
    [][\A j \in Jobs :
        (jobResp[j] = "none" /\ jobResp'[j] # "none") =>
            /\ jobResp'[j] = "retraining_started"
            /\ taskpc'[j] = "spawned"
            /\ \A call \in retrainCalls' : call.job # j]_vars

C8_Witness ==
    \E j \in Jobs :
        /\ jobResp[j] = "retraining_started"
        /\ Targeted(jobKeys[j]) = KnownCapabilities
        /\ taskpc[j] = "fraud_detection"

\* C9: only the known capabilities named in a payload are retrained, each with
\* the examples stored under its own key; an unknown key causes no call and no
\* error, and when no retrain raises every known capability named is retrained.
CallsOf(j) == {call \in retrainCalls : call.job = j}
C9_OnlyKnownCapabilitiesRetrained ==
    /\ \A call \in retrainCalls :
        /\ call.cap \in Targeted(jobKeys[call.job])
        /\ call.examples = TrainingData(call.job, call.cap)
    /\ \A j \in Jobs :
        /\ j <= submitted => jobResp[j] = "retraining_started"
        /\ errorLog[j] => \E c \in KnownCapabilities : capState[j][c] = "failed"
        /\ (taskpc[j] = "done" /\ ~errorLog[j]) =>
                {call.cap : call \in CallsOf(j)} = Targeted(jobKeys[j])

C9_Witness ==
    \E j \in Jobs :
        /\ jobKeys[j] = {"categorization", "predictions", "unknown_capability"}
        /\ taskpc[j] = "done"
        /\ ~errorLog[j]
        /\ {call.cap : call \in CallsOf(j)} = {"categorization", "predictions"}

\* C10: a payload that names no known capability is rejected with
\* JobSubmissionError and no background task is created for it.
C10_UntargetedPayloadRejected ==
    \A j \in Jobs :
        (j <= submitted /\ Targeted(jobKeys[j]) = {}) =>
            /\ jobResp[j] = "JobSubmissionError"
            /\ taskpc[j] = "none"

C13_ReleaseFailureKeepsResult ==
    \A r \in Reqs :
        (reqpc[r] = "done" /\ capCall[r] = "returned") => reqResp[r] = "result"

\* C16: the validation / OCR service is called only by a request whose upload
\* was stored, in the step that completes the write; a request whose
\* acquisition failed answers 500 without any service call, then or later.
C16_AcquireBeforeCapability ==
    /\ [](\A r \in Reqs :
            /\ capCall[r] # "not_called" => acquired[r]
            /\ (reqpc[r] = "done" /\ capCall[r] = "not_called") =>
                    reqResp[r] = "http_500")
    /\ [][\A r \in Reqs :
            /\ (capCall[r] = "not_called" /\ capCall'[r] # "not_called") =>
                    /\ reqpc[r] = "reading"
                    /\ acquired[r]
                    /\ capCall'[r] = "called"
            /\ reqpc[r] = "done" => capCall'[r] = capCall[r]]_vars

C16_Witness ==
    \E r1, r2 \in Reqs :
        /\ reqpc[r1] = "done" /\ ~acquired[r1]
        /\ capCall[r1] = "not_called" /\ reqResp[r1] = "http_500"
        /\ reqpc[r2] = "done" /\ acquired[r2]
        /\ capCall[r2] = "not_called" /\ reqResp[r2] = "http_500"

\* C14: a failed retrain is logged and ends its own task normally; it never
\* changes a response already given, and the step in which it fails leaves
\* every other submission's task and outcomes as they were.
C14_BackgroundFailureContained ==
    /\ [](\A j \in Jobs :
            /\ taskpc[j] \in {"none", "spawned", "done"} \cup KnownCapabilities
            /\ (\E c \in KnownCapabilities : capState[j][c] = "failed") =>
                    /\ errorLog[j]
                    /\ taskpc[j] = "done"
                    /\ jobResp[j] = "retraining_started")
    /\ [][\A j \in Jobs :
            /\ jobResp[j] # "none" => jobResp'[j] = jobResp[j]
            /\ (errorLog'[j] /\ ~errorLog[j]) =>
                    \A k \in Jobs \ {j} :
                        /\ taskpc'[k] = taskpc[k]
                        /\ capState'[k] = capState[k]
                        /\ errorLog'[k] = errorLog[k]]_vars

C14_Witness ==
    \E j, k \in Jobs :
        /\ j # k
        /\ capState[j]["categorization"] = "failed"
        /\ errorLog[j]
        /\ jobResp[j] = "retraining_started"
        /\ jobKeys[k] = {"categorization"}
        /\ capState[k]["categorization"] = "succeeded"
        /\ ~errorLog[k]

\* C18: one submission retrains its capabilities one at a time, in the order
\* categorization, fraud_detection, predictions: a later one has started only
\* when every earlier targeted one has returned.
C18_Order == <<"categorization", "fraud_detection", "predictions">>
C18_SequentialFixedOrder ==
    \A j \in Jobs :
        /\ Cardinality({c \in KnownCapabilities : capState[j][c] = "running"}) <= 1
        /\ \A a, b \in 1..Len(C18_Order) :
            (/\ a < b
             /\ C18_Order[a] \in jobKeys[j]
             /\ capState[j][C18_Order[b]] # "not_run") =>
                capState[j][C18_Order[a]] = "succeeded"

C18_Witness ==
    \E j \in Jobs :
        /\ Targeted(jobKeys[j]) = KnownCapabilities
        /\ capState[j]["categorization"] = "succeeded"
        /\ capState[j]["fraud_detection"] = "succeeded"
        /\ capState[j]["predictions"] = "running"

\* C17: every valid request gets exactly one response, which carries the
\* category and the fraud alert computed for that request; responses never
\* outnumber requests. Once the handler is back at receive or has ended, and
\* the transport has not failed, every valid request has its response.
ValidReceived == {i \in 1..Len(wsReceived) : wsReceived[i].kind = "valid"}
C17_OneCorrelatedResponsePerRequest ==
    /\ Len(wsSent) <= Cardinality(ValidReceived)
    /\ \A i \in 1..Len(wsSent) :
        /\ wsSent[i].category = CategoryOf(wsReceived[i].expense)
        /\ wsSent[i].fraud_alert = FraudAlertOf(wsReceived[i].expense)
    /\ (wspc \in {"receiving", "closed"} /\ ~wsTransportError) =>
            Len(wsSent) = Cardinality(ValidReceived)

\* C15: two failed calls of the same single-item endpoint get the same
\* response, whatever their inputs and whatever exception each one caught.
C15_FailureResponseIndependentOfError ==
    \A q1, q2 \in Calls :
        (/\ sipc[q1] = "done" /\ sipc[q2] = "done"
         /\ siError[q1] # "none" /\ siError[q2] # "none"
         /\ siEndpoint[q1] = siEndpoint[q2]) =>
            siResp[q1] = siResp[q2]

C15_Witness ==
    \E q1, q2 \in Calls :
        /\ sipc[q1] = "done" /\ sipc[q2] = "done"
        /\ siEndpoint[q1] = "validate_receipt" /\ siEndpoint[q2] = "validate_receipt"
        /\ siError[q1] # "none" /\ siError[q2] # "none"
        /\ siError[q1] # siError[q2]
        /\ siLog[q1] # siLog[q2]
        /\ siResp[q1].status = 500

====
